---- MODULE Spec2Model ----
(***************************************************************************)
(* The asynchronous command-execution subsystem of the VSCode internal     *)
(* command MCP server: the allow-list gate and the sync/async gateway of   *)
(* CommandExecutor, the task store and scheduler of BackgroundTaskExecutor,*)
(* the tools, the callTool dispatcher and the life cycle of FastMcpServer,  *)
(* and the configuration listeners installed by activate and               *)
(* ServerManager.initialize.                                               *)
(*                                                                         *)
(* The extension holds two CommandExecutor objects: "mcp" is the one       *)
(* FastMcpServer creates and its tools call, "mgr" is the one              *)
(* ServerManager creates and its configuration listener refreshes.         *)
(*                                                                         *)
(* JavaScript runs every callback to completion, so each handler (and each *)
(* synchronous prefix of an async function, up to its first await) is one  *)
(* action.  Command names are sequences of characters.                     *)
(***************************************************************************)
EXTENDS Integers, Sequences, FiniteSets, TLC

VARIABLES
    now,                \* Date.now(), in scheduler-period units
    cfg,                \* the Configuration Source: the user's current settings
    showAsyncNotifications, \* the user's showAsyncNotifications setting, read when a task completes
    allowedCommands,    \* CommandExecutor.allowedCommands, per executor
    asyncExecution,     \* CommandExecutor.asyncExecution, per executor
    executionDelay,     \* CommandExecutor.executionDelay, per executor
    heap,               \* the BackgroundTask objects alive, per executor, by counter
    tasks,              \* BackgroundTaskExecutor.tasks: the Map's keys in insertion order
    taskCounter,        \* BackgroundTaskExecutor.taskCounter
    isRunning,          \* BackgroundTaskExecutor.isRunning
    processingInterval, \* TRUE while the setInterval timer is installed
    initialCheck,       \* TRUE while the one-shot setTimeout has not fired yet
    hostCalls,          \* per task object: Command Host calls issued for it so far
    hostOpen,           \* per task object: Command Host calls not yet settled
    syncCall,           \* the synchronous executeCommand awaiting the Command Host
    ev,                 \* what the last handler did: its name, outcome, host calls, notifications, payload
    mcpServer,          \* FastMcpServer: isRunning, awaited start/stop calls, status bar item
    hostCommands,       \* the command names vscode.commands.getCommands() answers with
    listCall,           \* the getAvailableCommands calls awaiting the Command Host
    gateList,           \* gate harness: an allow-list snapshot
    gateCmd,            \* gate harness: a command name
    gateOut,            \* gate harness: the gate's answer
    gatePc              \* gate harness: "ask" before the call, "done" after

vars == <<now, cfg, showAsyncNotifications, allowedCommands, asyncExecution, executionDelay, heap, tasks,
          taskCounter, isRunning, processingInterval, initialCheck, hostCalls,
          hostOpen, syncCall, ev, mcpServer, hostCommands, listCall,
          gateList, gateCmd, gateOut, gatePc>>

gateVars == <<gateList, gateCmd, gateOut, gatePc>>

dispatchVars == <<mcpServer, hostCommands, listCall>>

settingVars == <<showAsyncNotifications>>

coreVars == <<now, cfg, showAsyncNotifications, allowedCommands, asyncExecution, executionDelay, heap, tasks,
              taskCounter, isRunning, processingInterval, initialCheck, hostCalls,
              hostOpen, syncCall, ev, mcpServer, hostCommands, listCall>>

(***************************************************************************)
(* Bounds of the model.                                                    *)
(***************************************************************************)
MaxTasks == 2
MaxTime == 1
LongDelay == 1
MaxSyncInFlight == 1
GateNameLen == 2
MaxServerCalls == 2
MaxListInFlight == 1
HostNameLen == 3
MaxHostCommands == 24

(***************************************************************************)
(* Values.                                                                 *)
(***************************************************************************)
Executors == {"mcp", "mgr"}

Undef == -1

NoValue == "undefined"

Star == "*"

Chars == {"a", "b", Star}

CmdA == <<"a", "b">>

CmdB == <<"b">>

Commands == {CmdA, CmdB}

AllowLists == {<<>>, << <<"a", Star>> >>}

DelayValues == {0, LongDelay}

Configs == [allowedCommands : AllowLists, asyncExecution : BOOLEAN, executionDelay : DelayValues]

HostOutcomes == {"returns", "raises"}

HostResult == "result"

HostError == "host error"

\* The Command Host raising an Error whose message is the empty string.
HostRaisesEmpty == "raisesEmpty"

\* How an awaited Command Host call of a task can settle.
TaskHostOutcomes == HostOutcomes \cup {HostRaisesEmpty}

\* error instanceof Error ? error.message : String(error)
ErrorMessage(outcome) == IF outcome = HostRaisesEmpty THEN "" ELSE HostError

NoSync == <<>>

(***************************************************************************)
(* Allow-List Gate.                                                        *)
(***************************************************************************)
EndsWith(s, c) == Len(s) > 0 /\ s[Len(s)] = c

StartsWith(s, p) == Len(p) <= Len(s) /\ SubSeq(s, 1, Len(p)) = p

\* Mutant: the wildcard marker is not stripped from the entry.
Slice0m1Keep(s) == s

Slice0m1(s) == SubSeq(s, 1, Len(s) - 1)

IsCommandAllowed(allowed, command) ==
    IF Len(allowed) = 0
    THEN TRUE
    ELSE \E i \in 1..Len(allowed) :
            IF EndsWith(allowed[i], Star)
            THEN StartsWith(command, Slice0m1(allowed[i]))
            ELSE command = allowed[i]

(***************************************************************************)
(* Task Store: BackgroundTask objects and the Map that holds them.         *)
(***************************************************************************)
\* Mutant: the task id is built from the time alone.
NewTaskIdFromTime(n, command, args, delay, t) ==
    [id |-> <<0, t>>, command |-> command, args |-> args, delay |-> delay,
     status |-> "pending", createdAt |-> t, startedAt |-> Undef,
     completedAt |-> Undef, result |-> NoValue, error |-> NoValue]

NewTask(n, command, args, delay, t) ==
    [id |-> <<n, t>>, command |-> command, args |-> args, delay |-> delay,
     status |-> "pending", createdAt |-> t, startedAt |-> Undef,
     completedAt |-> Undef, result |-> NoValue, error |-> NoValue]

SeqToSet(s) == {s[i] : i \in 1..Len(s)}

FilterStatus(h, store, S) == SelectSeq(store, LAMBDA n : h[n].status \in S)

\* Mutant: cancelled tasks are counted as failed as well.
GetTaskStatsCancelledTwice(h, store) ==
    [total     |-> Len(store),
     pending   |-> Len(FilterStatus(h, store, {"pending"})),
     running   |-> Len(FilterStatus(h, store, {"running"})),
     completed |-> Len(FilterStatus(h, store, {"completed"})),
     failed    |-> Len(FilterStatus(h, store, {"failed", "cancelled"})),
     cancelled |-> Len(FilterStatus(h, store, {"cancelled"}))]

GetTaskStats(h, store) ==
    [total     |-> Len(store),
     pending   |-> Len(FilterStatus(h, store, {"pending"})),
     running   |-> Len(FilterStatus(h, store, {"running"})),
     completed |-> Len(FilterStatus(h, store, {"completed"})),
     failed    |-> Len(FilterStatus(h, store, {"failed"})),
     cancelled |-> Len(FilterStatus(h, store, {"cancelled"}))]

\* An object stays alive while the Map holds it or a pending continuation of
\* executeTask refers to it.
Alive(store, open) == SeqToSet(store) \cup {n \in DOMAIN open : open[n] > 0}

Restrict(f, S) == [n \in (DOMAIN f) \cap S |-> f[n]]

\* Mutant: clearCompletedTasks keeps the pending tasks only.
ClearCompletedStorePendingOnly(h, store) == FilterStatus(h, store, {"pending"})

\* The Map after clearCompletedTasks deleted the completed, failed and cancelled tasks.
ClearCompletedStore(h, store) == FilterStatus(h, store, {"pending", "running"})

\* completedTasks.length, the value clearCompletedTasks returns.
ClearCompletedCount(h, store) == Len(FilterStatus(h, store, {"completed", "failed", "cancelled"}))

\* this.tasks.size before the clear, the value clearAllTasks returns.
ClearAllCount(h, store) == Len(store)

ClearAllStore(h, store) == <<>>

\* Mutant: only a running task can be cancelled.
CancelTaskObjectRunningOnly(task, t) ==
    IF task.status = "running"
    THEN [task EXCEPT !.status = "cancelled", !.completedAt = t]
    ELSE task

\* Mutant: a cancellation overwrites a finished task too.
CancelTaskObjectAnyStatus(task, t) ==
    [task EXCEPT !.status = "cancelled", !.completedAt = t]

\* Mutant: a cancellation does not stamp completedAt.
CancelTaskObjectNoStamp(task, t) ==
    IF task.status \in {"pending", "running"}
    THEN [task EXCEPT !.status = "cancelled"]
    ELSE task

CancelTaskObject(task, t) ==
    IF task.status \in {"pending", "running"}
    THEN [task EXCEPT !.status = "cancelled", !.completedAt = t]
    ELSE task

(***************************************************************************)
(* Scheduler Loop.                                                         *)
(***************************************************************************)
RECURSIVE SortByCreatedAt(_, _)
\* Mutant: the comparator is reversed, the newest task comes first.
InsertByCreatedAtNewestFirst(h, n, sorted) ==
    LET keep == {i \in 1..Len(sorted) : h[sorted[i]].createdAt > h[n].createdAt}
        k == IF keep = {} THEN 0 ELSE CHOOSE i \in keep : \A j \in keep : j <= i
    IN SubSeq(sorted, 1, k) \o <<n>> \o SubSeq(sorted, k + 1, Len(sorted))

\* sort((a, b) => a.createdAt - b.createdAt), a stable sort: a task goes behind
\* the last one whose createdAt is not larger.
InsertByCreatedAt(h, n, sorted) ==
    LET keep == {i \in 1..Len(sorted) : h[sorted[i]].createdAt <= h[n].createdAt}
        k == IF keep = {} THEN 0 ELSE CHOOSE i \in keep : \A j \in keep : j <= i
    IN SubSeq(sorted, 1, k) \o <<n>> \o SubSeq(sorted, k + 1, Len(sorted))

SortByCreatedAt(h, s) ==
    IF s = <<>>
    THEN <<>>
    ELSE InsertByCreatedAt(h, s[Len(s)], SortByCreatedAt(h, SubSeq(s, 1, Len(s) - 1)))

PendingTasks(h, store) == SortByCreatedAt(h, FilterStatus(h, store, {"pending"}))

\* Mutant: the delay must be exceeded, not reached.
ShouldExecuteStrict(task, t) == t - task.createdAt > task.delay

ShouldExecute(task, t) == t - task.createdAt >= task.delay

\* executeTask up to its await: the guard, the flip to running, the host call.
ExecuteTaskStarts(task) == task.status = "pending"

\* Mutant: the task is not flipped to running before the host call.
ExecuteTaskBeginNoFlip(task, t) ==
    IF ExecuteTaskStarts(task) THEN [task EXCEPT !.startedAt = t] ELSE task

\* Mutant: starting a task resets its delay.
ExecuteTaskBeginResetsDelay(task, t) ==
    IF ExecuteTaskStarts(task)
    THEN [task EXCEPT !.status = "running", !.startedAt = t, !.delay = 0]
    ELSE task

ExecuteTaskBegin(task, t) ==
    IF ExecuteTaskStarts(task)
    THEN [task EXCEPT !.status = "running", !.startedAt = t]
    ELSE task

\* Mutant: the status is written only while the task is still running, the
\* result or error always.
ExecuteTaskEndGuardedStatus(task, outcome, t) ==
    LET st == IF task.status # "running"
              THEN task.status
              ELSE IF outcome = "returns" THEN "completed" ELSE "failed"
    IN IF outcome = "returns"
       THEN [task EXCEPT !.status = st, !.completedAt = t, !.result = HostResult]
       ELSE [task EXCEPT !.status = st, !.completedAt = t, !.error = HostError]

\* executeTask after its await: the outcome is written to the task object.
\* Mutant: no catch, a raised error leaves the task as it is.
ExecuteTaskEndNoCatch(task, outcome, t) ==
    IF outcome = "returns"
    THEN [task EXCEPT !.status = "completed", !.completedAt = t, !.result = HostResult]
    ELSE task

ExecuteTaskEnd(task, outcome, t) ==
    IF outcome = "returns"
    THEN [task EXCEPT !.status = "completed", !.completedAt = t, !.result = HostResult]
    ELSE [task EXCEPT !.status = "failed", !.completedAt = t, !.error = ErrorMessage(outcome)]

\* The for loop of processPendingTasks over the sorted pending list: the heap
\* after it and the tasks handed to the Command Host, in order.
RECURSIVE RunLoop(_, _, _)
RunLoop(h, pend, t) ==
    IF pend = <<>>
    THEN [heap |-> h, started |-> <<>>]
    ELSE LET n == pend[1]
             go == h[n].status = "pending" /\ ShouldExecute(h[n], t)
             call == go /\ ExecuteTaskStarts(h[n])
             h1 == IF go THEN [h EXCEPT ![n] = ExecuteTaskBegin(h[n], t)] ELSE h
             rest == RunLoop(h1, SubSeq(pend, 2, Len(pend)), t)
         IN [heap |-> rest.heap,
             started |-> IF call THEN <<n>> \o rest.started ELSE rest.started]

\* Mutant: the isRunning flag is not consulted.
ProcessPendingTasksNoFlag(running, h, store, t) == RunLoop(h, PendingTasks(h, store), t)

\* Mutant: one task at a time, nothing is started while a task is running.
ProcessPendingTasksSerial(running, h, store, t) ==
    IF ~running \/ FilterStatus(h, store, {"running"}) # <<>>
    THEN [heap |-> h, started |-> <<>>]
    ELSE RunLoop(h, PendingTasks(h, store), t)

\* Mutant: a tick fails the tasks that have been running since an earlier time.
ProcessPendingTasksTimesOut(running, h, store, t) ==
    IF ~running
    THEN [heap |-> h, started |-> <<>>]
    ELSE LET timed == [n \in DOMAIN h |->
                          IF h[n].status = "running" /\ h[n].startedAt < t
                          THEN [h[n] EXCEPT !.status = "failed", !.completedAt = t,
                                            !.error = "timeout"]
                          ELSE h[n]]
         IN CHOOSE r \in {RunLoop(timed, pendingTasks, t) :
                              pendingTasks \in {PendingTasks(h, store)}} : TRUE

\* The sorted pending list is built once, before the loop runs over it.
ProcessPendingTasks(running, h, store, t) ==
    IF ~running
    THEN [heap |-> h, started |-> <<>>]
    ELSE CHOOSE r \in {RunLoop(h, pendingTasks, t) : pendingTasks \in {PendingTasks(h, store)}} :
            TRUE

AddCalls(f, started) ==
    [n \in DOMAIN f |-> f[n] + Cardinality({i \in 1..Len(started) : started[i] = n})]

\* The payload field of a handler that answers with none.
NoPayload == <<>>

Event(op, e, cmd, out, num, called, notes) ==
    [op |-> op, exec |-> e, cmd |-> cmd, out |-> out, num |-> num,
     called |-> called, notes |-> notes, res |-> NoPayload, tool |-> ""]

Extend(f, n, v) == [k \in (DOMAIN f) \cup {n} |-> IF k = n THEN v ELSE f[k]]

Decrement(f, n) == [f EXCEPT ![n] = f[n] - 1]

(***************************************************************************)
(* Command Gateway: CommandExecutor.executeCommand, reached through the    *)
(* execute_vscode_command tool of FastMcpServer, which turns the thrown    *)
(* "not allowed" error into an isError result.                             *)
(***************************************************************************)
\* Mutant: the gate is consulted on the synchronous path only.
ExecuteCommandPathGateSyncOnly(allowed, async, command) ==
    IF async
    THEN "async"
    ELSE IF ~IsCommandAllowed(allowed, command) THEN "notAllowed" ELSE "sync"

ExecuteCommandPath(allowed, async, command) ==
    IF ~IsCommandAllowed(allowed, command)
    THEN "notAllowed"
    ELSE IF async THEN "async" ELSE "sync"

\* Mutant: the store holds one task, a new entry evicts the older ones.
MapSetEvicts(store, n) == <<n>>

\* tasks.set(taskId, task): a new key goes to the end of the Map's order.
MapSet(store, n) == IF n \in SeqToSet(store) THEN store ELSE Append(store, n)

SubmitTask(e, command, args, delay) ==
    LET n == taskCounter[e] + 1
    IN /\ taskCounter' = [taskCounter EXCEPT ![e] = n]
       /\ heap' = [heap EXCEPT ![e] = Extend(heap[e], n, NewTask(n, command, args, delay, now))]
       /\ tasks' = [tasks EXCEPT ![e] = MapSet(tasks[e], n)]
       /\ hostCalls' = [hostCalls EXCEPT ![e] = Extend(hostCalls[e], n, 0)]
       /\ hostOpen' = [hostOpen EXCEPT ![e] = Extend(hostOpen[e], n, 0)]

ToolRejected(e, command) ==
    /\ ExecuteCommandPath(allowedCommands[e], asyncExecution[e], command) = "notAllowed"
    /\ ev' = Event("tool", e, command, "notAllowed", 0, <<>>, <<>>)
    /\ UNCHANGED <<now, cfg, allowedCommands, asyncExecution, executionDelay, heap, tasks,
                   taskCounter, isRunning, processingInterval, initialCheck, hostCalls,
                   hostOpen, syncCall>>
    /\ UNCHANGED gateVars
    /\ UNCHANGED settingVars
    /\ UNCHANGED dispatchVars

\* Mutant: the queue length counts the pending tasks only.
AckPayloadPendingOnly(taskId, command, args, delay, stats) ==
    [success |-> TRUE, async |-> TRUE, taskId |-> taskId, message |-> "submitted",
     command |-> command, arguments |-> args, executionDelay |-> delay,
     queueLength |-> stats.pending, taskStats |-> stats]

\* The object the asynchronous branch of executeCommand returns.
AckPayload(taskId, command, args, delay, stats) ==
    [success |-> TRUE, async |-> TRUE, taskId |-> taskId, message |-> "submitted",
     command |-> command, arguments |-> args, executionDelay |-> delay,
     queueLength |-> stats.pending + stats.running, taskStats |-> stats]

ToolAsync(e, command) ==
    /\ ExecuteCommandPath(allowedCommands[e], asyncExecution[e], command) = "async"
    /\ taskCounter[e] < MaxTasks
    /\ SubmitTask(e, command, <<>>, executionDelay[e])
    /\ ev' = [Event("tool", e, command, "ack", taskCounter[e] + 1, <<>>, <<>>)
                 EXCEPT !.res = AckPayload(heap'[e][taskCounter[e] + 1].id, command, <<>>,
                                           executionDelay[e],
                                           GetTaskStats(heap'[e], tasks'[e]))]
    /\ UNCHANGED <<now, cfg, allowedCommands, asyncExecution, executionDelay,
                   isRunning, processingInterval, initialCheck, syncCall>>
    /\ UNCHANGED gateVars
    /\ UNCHANGED settingVars
    /\ UNCHANGED dispatchVars

ToolSync(e, command) ==
    /\ ExecuteCommandPath(allowedCommands[e], asyncExecution[e], command) = "sync"
    /\ Len(syncCall) < MaxSyncInFlight
    /\ syncCall' = Append(syncCall, command)
    /\ ev' = Event("tool", e, command, "awaiting", 0, <<0>>, <<>>)
    /\ UNCHANGED <<now, cfg, allowedCommands, asyncExecution, executionDelay, heap, tasks,
                   taskCounter, isRunning, processingInterval, initialCheck, hostCalls,
                   hostOpen>>
    /\ UNCHANGED gateVars
    /\ UNCHANGED settingVars
    /\ UNCHANGED dispatchVars

\* Mutant: the synchronous branch has no catch, a raised error leaves executeCommand.
SyncOutcomeNoCatch(outcome) == IF outcome = "returns" THEN "syncOk" ELSE "thrown"

\* How the synchronous branch of executeCommand ends: it returns an object on
\* both paths of its try/catch.
SyncOutcome(outcome) == IF outcome = "returns" THEN "syncOk" ELSE "syncFail"

\* Mutant: the failure object carries the error alone.
SyncPayloadErrorOnly(command, args, outcome) ==
    IF outcome = "returns"
    THEN [success |-> TRUE, async |-> FALSE, result |-> HostResult,
          command |-> command, arguments |-> args]
    ELSE [success |-> FALSE, async |-> FALSE, error |-> HostError]

\* The object the synchronous branch of executeCommand returns.
SyncPayload(command, args, outcome) ==
    IF outcome = "returns"
    THEN [success |-> TRUE, async |-> FALSE, result |-> HostResult,
          command |-> command, arguments |-> args]
    ELSE [success |-> FALSE, async |-> FALSE, error |-> HostError,
          command |-> command, arguments |-> args]

\* The awaited Command Host call of the synchronous path settles.
SyncReturn(i, outcome) ==
    /\ i \in 1..Len(syncCall)
    /\ syncCall' = SubSeq(syncCall, 1, i - 1) \o SubSeq(syncCall, i + 1, Len(syncCall))
    /\ ev' = [Event("syncReturn", "mcp", syncCall[i], SyncOutcome(outcome), 0, <<>>, <<>>)
                 EXCEPT !.res = IF SyncOutcome(outcome) = "thrown"
                                THEN NoPayload
                                ELSE SyncPayload(syncCall[i], <<>>, outcome)]
    /\ UNCHANGED <<now, cfg, allowedCommands, asyncExecution, executionDelay, heap, tasks,
                   taskCounter, isRunning, processingInterval, initialCheck, hostCalls,
                   hostOpen>>
    /\ UNCHANGED gateVars
    /\ UNCHANGED settingVars
    /\ UNCHANGED dispatchVars

(***************************************************************************)
(* Timers and the Command Host's answers.                                  *)
(***************************************************************************)
RunProcessor(e, op) ==
    LET r == ProcessPendingTasks(isRunning[e], heap[e], tasks[e], now)
    IN /\ heap' = [heap EXCEPT ![e] = r.heap]
       /\ hostCalls' = [hostCalls EXCEPT ![e] = AddCalls(hostCalls[e], r.started)]
       /\ hostOpen' = [hostOpen EXCEPT ![e] = AddCalls(hostOpen[e], r.started)]
       /\ ev' = Event(op, e, <<>>, "", 0, r.started, <<>>)

\* The setInterval callback.
Tick(e) ==
    /\ processingInterval[e]
    /\ RunProcessor(e, "tick")
    /\ UNCHANGED <<now, cfg, allowedCommands, asyncExecution, executionDelay, tasks,
                   taskCounter, isRunning, processingInterval, initialCheck, syncCall>>
    /\ UNCHANGED gateVars
    /\ UNCHANGED settingVars
    /\ UNCHANGED dispatchVars

\* The one-shot setTimeout callback of startTaskProcessor.
InitialCheck(e) ==
    /\ initialCheck[e]
    /\ initialCheck' = [initialCheck EXCEPT ![e] = FALSE]
    /\ RunProcessor(e, "initialCheck")
    /\ UNCHANGED <<now, cfg, allowedCommands, asyncExecution, executionDelay, tasks,
                   taskCounter, isRunning, processingInterval, syncCall>>
    /\ UNCHANGED gateVars
    /\ UNCHANGED settingVars
    /\ UNCHANGED dispatchVars

\* Mutant: the error message is shown only when notifications are configured.
CompletionNotesErrorIfShown(outcome, show) ==
    IF show THEN (IF outcome = "returns" THEN <<"info">> ELSE <<"error">>) ELSE <<>>

\* The notifications executeTask raises after its await: the "Done" message
\* when the host returned and showAsyncNotifications is set, the error message
\* whenever the host raised.
CompletionNotes(outcome, show) ==
    IF outcome = "returns"
    THEN (IF show THEN <<"info">> ELSE <<>>)
    ELSE <<"error">>

\* The continuation of executeTask: the Command Host call of task object n settles.
HostReturn(e, n, outcome) ==
    /\ n \in DOMAIN hostOpen[e]
    /\ hostOpen[e][n] > 0
    /\ LET open == Decrement(hostOpen[e], n)
           live == Alive(tasks[e], open)
           h == [heap[e] EXCEPT ![n] = ExecuteTaskEnd(heap[e][n], outcome, now)]
       IN /\ heap' = [heap EXCEPT ![e] = Restrict(h, live)]
          /\ hostOpen' = [hostOpen EXCEPT ![e] = Restrict(open, live)]
          /\ hostCalls' = [hostCalls EXCEPT ![e] = Restrict(hostCalls[e], live)]
          /\ ev' = Event("hostReturn", e, heap[e][n].command, outcome, n, <<>>,
                         CompletionNotes(outcome, showAsyncNotifications))
    /\ UNCHANGED <<now, cfg, allowedCommands, asyncExecution, executionDelay, tasks,
                   taskCounter, isRunning, processingInterval, initialCheck, syncCall>>
    /\ UNCHANGED gateVars
    /\ UNCHANGED settingVars
    /\ UNCHANGED dispatchVars

Advance ==
    /\ now < MaxTime
    /\ now' = now + 1
    /\ ev' = Event("advance", "", <<>>, "", 0, <<>>, <<>>)
    /\ UNCHANGED <<cfg, allowedCommands, asyncExecution, executionDelay, heap, tasks,
                   taskCounter, isRunning, processingInterval, initialCheck, hostCalls,
                   hostOpen, syncCall>>
    /\ UNCHANGED gateVars
    /\ UNCHANGED settingVars
    /\ UNCHANGED dispatchVars

(***************************************************************************)
(* Task query surface and shutdown.                                        *)
(***************************************************************************)
\* The Map becomes newStore; objects nothing refers to any more are gone.
SetStore(e, newStore) ==
    LET live == Alive(newStore, hostOpen[e])
    IN /\ tasks' = [tasks EXCEPT ![e] = newStore]
       /\ heap' = [heap EXCEPT ![e] = Restrict(heap[e], live)]
       /\ hostCalls' = [hostCalls EXCEPT ![e] = Restrict(hostCalls[e], live)]
       /\ hostOpen' = [hostOpen EXCEPT ![e] = Restrict(hostOpen[e], live)]

CancelBackgroundTask(e, n) ==
    /\ LET found == n \in SeqToSet(tasks[e])
           done == found /\ heap[e][n].status \in {"pending", "running"}
       IN /\ heap' = IF found
                     THEN [heap EXCEPT ![e][n] = CancelTaskObject(heap[e][n], now)]
                     ELSE heap
          /\ ev' = Event("cancel", e, <<>>, IF done THEN "true" ELSE "false", n, <<>>, <<>>)
    /\ UNCHANGED <<now, cfg, allowedCommands, asyncExecution, executionDelay, tasks,
                   taskCounter, isRunning, processingInterval, initialCheck, hostCalls,
                   hostOpen, syncCall>>
    /\ UNCHANGED gateVars
    /\ UNCHANGED settingVars
    /\ UNCHANGED dispatchVars

ClearCompletedTasks(e) ==
    /\ SetStore(e, ClearCompletedStore(heap[e], tasks[e]))
    /\ ev' = Event("clearCompleted", e, <<>>, "",
                   ClearCompletedCount(heap[e], tasks[e]), <<>>, <<>>)
    /\ UNCHANGED <<now, cfg, allowedCommands, asyncExecution, executionDelay,
                   taskCounter, isRunning, processingInterval, initialCheck, syncCall>>
    /\ UNCHANGED gateVars
    /\ UNCHANGED settingVars
    /\ UNCHANGED dispatchVars

ClearAllTasks(e) ==
    /\ SetStore(e, ClearAllStore(heap[e], tasks[e]))
    /\ ev' = Event("clearAll", e, <<>>, "", ClearAllCount(heap[e], tasks[e]), <<>>, <<>>)
    /\ UNCHANGED <<now, cfg, allowedCommands, asyncExecution, executionDelay,
                   taskCounter, isRunning, processingInterval, initialCheck, syncCall>>
    /\ UNCHANGED gateVars
    /\ UNCHANGED settingVars
    /\ UNCHANGED dispatchVars

Stop(e) ==
    /\ isRunning' = [isRunning EXCEPT ![e] = FALSE]
    /\ processingInterval' = [processingInterval EXCEPT ![e] = FALSE]
    /\ ev' = Event("stop", e, <<>>, "", 0, <<>>, <<>>)
    /\ UNCHANGED <<now, cfg, allowedCommands, asyncExecution, executionDelay, heap, tasks,
                   taskCounter, initialCheck, hostCalls, hostOpen, syncCall>>
    /\ UNCHANGED gateVars
    /\ UNCHANGED settingVars
    /\ UNCHANGED dispatchVars

Dispose(e) ==
    /\ isRunning' = [isRunning EXCEPT ![e] = FALSE]
    /\ processingInterval' = [processingInterval EXCEPT ![e] = FALSE]
    /\ SetStore(e, ClearAllStore(heap[e], tasks[e]))
    /\ ev' = Event("dispose", e, <<>>, "", Len(tasks[e]), <<>>, <<>>)
    /\ UNCHANGED <<now, cfg, allowedCommands, asyncExecution, executionDelay,
                   taskCounter, initialCheck, syncCall>>
    /\ UNCHANGED gateVars
    /\ UNCHANGED settingVars
    /\ UNCHANGED dispatchVars

(***************************************************************************)
(* Configuration refresh.                                                  *)
(***************************************************************************)
\* Mutant: the purge looks at the running count instead of the pending count.
PurgeOnRefreshRunning(async, stats) == ~async /\ stats.running > 0

\* Mutant: a refresh purges the pending tasks in either mode.
PurgeOnRefreshAnyMode(async, stats) == stats.pending > 0

\* updateAsyncConfig's decision to clear the executor's tasks.
PurgeOnRefresh(async, stats) == ~async /\ stats.pending > 0

RefreshNotes(async, stats) == IF PurgeOnRefresh(async, stats) THEN <<"warning">> ELSE <<>>

\* The number of pending tasks the warning names.
WarnedPending(async, stats) == IF PurgeOnRefresh(async, stats) THEN stats.pending ELSE 0

\* Mutant: a refresh applies the allow-list only, mode and delay are left for a
\* later step.
RefreshExecutorsListOnly(R, c) ==
    /\ allowedCommands' = [e \in Executors |->
                              IF e \in R THEN c.allowedCommands ELSE allowedCommands[e]]
    /\ UNCHANGED <<asyncExecution, executionDelay, tasks, heap, hostCalls, hostOpen>>

\* updateAllowedCommands() then updateAsyncConfig() of every executor in R,
\* reading settings c.
RefreshExecutors(R, c) ==
    LET purge(e) == e \in R /\ PurgeOnRefresh(c.asyncExecution, GetTaskStats(heap[e], tasks[e]))
        store(e) == IF purge(e) THEN ClearAllStore(heap[e], tasks[e]) ELSE tasks[e]
        live(e) == Alive(store(e), hostOpen[e])
    IN /\ allowedCommands' = [e \in Executors |->
                                 IF e \in R THEN c.allowedCommands ELSE allowedCommands[e]]
       /\ asyncExecution' = [e \in Executors |->
                                IF e \in R THEN c.asyncExecution ELSE asyncExecution[e]]
       /\ executionDelay' = [e \in Executors |->
                                IF e \in R THEN c.executionDelay ELSE executionDelay[e]]
       /\ tasks' = [e \in Executors |-> store(e)]
       /\ heap' = [e \in Executors |-> Restrict(heap[e], live(e))]
       /\ hostCalls' = [e \in Executors |-> Restrict(hostCalls[e], live(e))]
       /\ hostOpen' = [e \in Executors |-> Restrict(hostOpen[e], live(e))]

\* The settings become c and executor e is refreshed from them.
Refresh(e, c) ==
    /\ cfg' = c
    /\ RefreshExecutors({e}, c)
    /\ ev' = Event("refresh", e, <<>>, "",
                   WarnedPending(c.asyncExecution, GetTaskStats(heap[e], tasks[e])), <<>>,
                   RefreshNotes(c.asyncExecution, GetTaskStats(heap[e], tasks[e])))
    /\ UNCHANGED <<now, taskCounter, isRunning, processingInterval, initialCheck, syncCall>>
    /\ UNCHANGED gateVars
    /\ UNCHANGED settingVars
    /\ UNCHANGED dispatchVars

\* The executors FastMcpServer.updateConfiguration refreshes: it only logs.
UpdateConfigurationRefreshes == {}

\* The executors the listener of ServerManager.initialize refreshes.
ServerManagerRefreshes == {"mgr"}

\* The settings change to c and vscode fires onDidChangeConfiguration: the
\* listener of activate calls mcpServer.updateConfiguration() and shows a
\* message, the listener of ServerManager.initialize refreshes its executor and
\* shows a message.
ConfigChanged(c) ==
    /\ c # cfg
    /\ cfg' = c
    /\ RefreshExecutors(UpdateConfigurationRefreshes \cup ServerManagerRefreshes, c)
    /\ ev' = Event("configChanged", "mgr", <<>>, "",
                   WarnedPending(c.asyncExecution, GetTaskStats(heap["mgr"], tasks["mgr"])), <<>>,
                   <<"info">> \o RefreshNotes(c.asyncExecution, GetTaskStats(heap["mgr"], tasks["mgr"]))
                              \o <<"info">>)
    /\ UNCHANGED <<now, taskCounter, isRunning, processingInterval, initialCheck, syncCall>>
    /\ UNCHANGED gateVars
    /\ UNCHANGED settingVars
    /\ UNCHANGED dispatchVars

\* The user sets showAsyncNotifications to b and vscode fires
\* onDidChangeConfiguration: both listeners run as for any other setting of the
\* extension, with the other settings as they are.
NotificationsChanged(b) ==
    /\ b # showAsyncNotifications
    /\ showAsyncNotifications' = b
    /\ RefreshExecutors(UpdateConfigurationRefreshes \cup ServerManagerRefreshes, cfg)
    /\ ev' = Event("notificationsChanged", "mgr", <<>>, "",
                   WarnedPending(cfg.asyncExecution, GetTaskStats(heap["mgr"], tasks["mgr"])), <<>>,
                   <<"info">> \o RefreshNotes(cfg.asyncExecution, GetTaskStats(heap["mgr"], tasks["mgr"]))
                              \o <<"info">>)
    /\ UNCHANGED <<now, cfg, taskCounter, isRunning, processingInterval, initialCheck, syncCall>>
    /\ UNCHANGED gateVars
    /\ UNCHANGED dispatchVars

(***************************************************************************)
(* Dispatcher: FastMcpServer.callTool.  It switches on the tool name and    *)
(* has no try/catch, so what a collaborator throws leaves callTool.        *)
(***************************************************************************)
ToolNames == {"execute_vscode_command", "list_vscode_commands", "get_workspace_info"}

\* Tool names a caller may pass: the three tools and one that is none of them.
CallNames == ToolNames \cup {"delete_workspace"}

\* args.command when the caller's args carry no command.
Absent == <<NoValue>>

\* The empty string.
Empty == <<>>

\* The values args.command takes: a name, the empty string, or nothing.
CallCommands == Commands \cup {Empty, Absent}

\* isCommandAllowed on args.command as callTool passes it on: with a non-empty
\* allow-list an absent command either makes startsWith throw a TypeError or
\* matches no exact entry.
CallToolGate(allowed, command) ==
    IF command = Absent THEN Len(allowed) = 0 ELSE IsCommandAllowed(allowed, command)

\* Where callTool(name, args) goes.
CallToolPath(name, allowed, async, command) ==
    IF name = "execute_vscode_command"
    THEN IF ~CallToolGate(allowed, command)
         THEN "thrown"
         ELSE IF async THEN "async" ELSE "sync"
    ELSE IF name = "list_vscode_commands"
         THEN "list"
         ELSE IF name = "get_workspace_info" THEN "info" ELSE "thrown"

CallEvent(name, command, out, num, called) ==
    [Event("callTool", "mcp", command, out, num, called, <<>>) EXCEPT !.tool = name]

\* callTool ends by throwing: an unknown tool name, or executeCommand threw.
CallToolThrows(name, command) ==
    /\ CallToolPath(name, allowedCommands["mcp"], asyncExecution["mcp"], command) = "thrown"
    /\ name # "execute_vscode_command" => command = Absent
    /\ ev' = CallEvent(name, command, "thrown", 0, <<>>)
    /\ UNCHANGED <<now, cfg, allowedCommands, asyncExecution, executionDelay, heap, tasks,
                   taskCounter, isRunning, processingInterval, initialCheck, hostCalls,
                   hostOpen, syncCall>>
    /\ UNCHANGED gateVars
    /\ UNCHANGED settingVars
    /\ UNCHANGED dispatchVars

\* callTool('execute_vscode_command') in async mode: the task is queued.
CallToolAsync(command) ==
    /\ CallToolPath("execute_vscode_command", allowedCommands["mcp"], asyncExecution["mcp"],
                    command) = "async"
    /\ taskCounter["mcp"] < MaxTasks
    /\ SubmitTask("mcp", command, <<>>, executionDelay["mcp"])
    /\ ev' = [CallEvent("execute_vscode_command", command, "ack", taskCounter["mcp"] + 1, <<>>)
                 EXCEPT !.res = AckPayload(heap'["mcp"][taskCounter["mcp"] + 1].id, command, <<>>,
                                           executionDelay["mcp"],
                                           GetTaskStats(heap'["mcp"], tasks'["mcp"]))]
    /\ UNCHANGED <<now, cfg, allowedCommands, asyncExecution, executionDelay,
                   isRunning, processingInterval, initialCheck, syncCall>>
    /\ UNCHANGED gateVars
    /\ UNCHANGED settingVars
    /\ UNCHANGED dispatchVars

\* callTool('execute_vscode_command') in sync mode: the Command Host is called.
CallToolSync(command) ==
    /\ CallToolPath("execute_vscode_command", allowedCommands["mcp"], asyncExecution["mcp"],
                    command) = "sync"
    /\ Len(syncCall) < MaxSyncInFlight
    /\ syncCall' = Append(syncCall, command)
    /\ ev' = CallEvent("execute_vscode_command", command, "awaiting", 0, <<0>>)
    /\ UNCHANGED <<now, cfg, allowedCommands, asyncExecution, executionDelay, heap, tasks,
                   taskCounter, isRunning, processingInterval, initialCheck, hostCalls,
                   hostOpen>>
    /\ UNCHANGED gateVars
    /\ UNCHANGED settingVars
    /\ UNCHANGED dispatchVars

\* callTool('get_workspace_info'): the workspace description is returned.
CallToolInfo ==
    /\ ev' = CallEvent("get_workspace_info", Absent, "info", 0, <<>>)
    /\ UNCHANGED <<now, cfg, allowedCommands, asyncExecution, executionDelay, heap, tasks,
                   taskCounter, isRunning, processingInterval, initialCheck, hostCalls,
                   hostOpen, syncCall>>
    /\ UNCHANGED gateVars
    /\ UNCHANGED settingVars
    /\ UNCHANGED dispatchVars

(***************************************************************************)
(* list_vscode_commands: getAvailableCommands and the preview the tool and  *)
(* callTool build from it.                                                 *)
(***************************************************************************)
\* The number of names the answer shows.
PreviewLimit == 20

\* UTF-16 code units, the order Array.prototype.sort() compares strings by.
CharCode(c) == IF c = Star THEN 42 ELSE IF c = "a" THEN 97 ELSE 98

RECURSIVE StringLess(_, _)
StringLess(s, t) ==
    IF t = <<>>
    THEN FALSE
    ELSE IF s = <<>>
         THEN TRUE
         ELSE IF CharCode(s[1]) # CharCode(t[1])
              THEN CharCode(s[1]) < CharCode(t[1])
              ELSE StringLess(Tail(s), Tail(t))

\* sort(): x goes behind the last element that is not larger than it.
SortInsert(x, sorted) ==
    LET keep == {i \in 1..Len(sorted) : ~StringLess(x, sorted[i])}
        k == IF keep = {} THEN 0 ELSE CHOOSE i \in keep : \A j \in keep : j <= i
    IN SubSeq(sorted, 1, k) \o <<x>> \o SubSeq(sorted, k + 1, Len(sorted))

RECURSIVE SortCommands(_)
SortCommands(s) ==
    IF s = <<>> THEN <<>> ELSE SortInsert(s[Len(s)], SortCommands(SubSeq(s, 1, Len(s) - 1)))

\* getAvailableCommands after its await: the host's names, filtered when the
\* allow-list is non-empty, sorted; the empty list when the host's query failed.
GetAvailableCommands(allowed, commands, outcome) ==
    IF outcome = "raises"
    THEN <<>>
    ELSE SortCommands(IF Len(allowed) > 0
                      THEN SelectSeq(commands, LAMBDA c : IsCommandAllowed(allowed, c))
                      ELSE commands)

\* Mutant: the indicator is shown from PreviewLimit names on.
ListPayloadFromLimit(commands) ==
    [isError |-> FALSE,
     count |-> Len(commands),
     preview |-> SubSeq(commands, 1, IF Len(commands) < PreviewLimit THEN Len(commands) ELSE PreviewLimit),
     more |-> Len(commands) >= PreviewLimit]

\* The answer of the tool's try branch: the number of names, the first
\* PreviewLimit names and the "more" line; it carries no isError flag.  The
\* catch branch that sets isError is not reached from getAvailableCommands,
\* which catches the host's error itself.
ListPayload(commands) ==
    [isError |-> FALSE,
     count |-> Len(commands),
     preview |-> SubSeq(commands, 1, IF Len(commands) < PreviewLimit THEN Len(commands) ELSE PreviewLimit),
     more |-> Len(commands) > PreviewLimit]

\* The list tool's execute, or callTool('list_vscode_commands'), up to the await
\* inside getAvailableCommands.
ListCall(via) ==
    /\ Len(listCall) < MaxListInFlight
    /\ listCall' = Append(listCall, via)
    /\ ev' = [Event(via, "mcp", <<>>, "awaiting", 0, <<>>, <<>>)
                 EXCEPT !.tool = "list_vscode_commands"]
    /\ UNCHANGED <<now, cfg, allowedCommands, asyncExecution, executionDelay, heap, tasks,
                   taskCounter, isRunning, processingInterval, initialCheck, hostCalls,
                   hostOpen, syncCall, mcpServer, hostCommands>>
    /\ UNCHANGED gateVars
    /\ UNCHANGED settingVars

\* vscode.commands.getCommands() settles: the names are filtered with the
\* allow-list of that moment, sorted, and shaped into the answer.
ListReturn(i, outcome) ==
    /\ i \in 1..Len(listCall)
    /\ listCall' = SubSeq(listCall, 1, i - 1) \o SubSeq(listCall, i + 1, Len(listCall))
    /\ ev' = [Event("listReturn", "mcp", <<>>, outcome, 0, <<>>, <<>>)
                 EXCEPT !.tool = "list_vscode_commands",
                        !.res = ListPayload(GetAvailableCommands(allowedCommands["mcp"],
                                                                 hostCommands, outcome))]
    /\ UNCHANGED <<now, cfg, allowedCommands, asyncExecution, executionDelay, heap, tasks,
                   taskCounter, isRunning, processingInterval, initialCheck, hostCalls,
                   hostOpen, syncCall, mcpServer, hostCommands>>
    /\ UNCHANGED gateVars
    /\ UNCHANGED settingVars

(***************************************************************************)
(* FastMcpServer life cycle: start, stop and dispose.  The awaited calls of *)
(* the FastMCP library settle in later callbacks.                          *)
(***************************************************************************)
ServerUnchanged ==
    /\ UNCHANGED <<now, cfg, allowedCommands, asyncExecution, executionDelay, heap, tasks,
                   taskCounter, isRunning, processingInterval, initialCheck, hostCalls,
                   hostOpen, syncCall, hostCommands, listCall>>
    /\ UNCHANGED gateVars
    /\ UNCHANGED settingVars

\* start() up to its await.
ServerStart ==
    /\ IF mcpServer.isRunning
       THEN /\ mcpServer' = mcpServer
            /\ ev' = Event("serverStart", "mcp", <<>>, "true", 0, <<>>, <<>>)
       ELSE /\ mcpServer.starting + mcpServer.started < MaxServerCalls
            /\ mcpServer' = [mcpServer EXCEPT !.starting = @ + 1]
            /\ ev' = Event("serverStart", "mcp", <<>>, "awaiting", 0, <<>>, <<>>)
    /\ ServerUnchanged

\* start() after its await: server.start() resolved or rejected.
ServerStartSettles(outcome) ==
    /\ mcpServer.starting > 0
    /\ mcpServer' = [mcpServer EXCEPT !.starting = @ - 1,
                                      !.isRunning = (outcome = "returns"),
                                      !.started = IF outcome = "returns" THEN @ + 1 ELSE @]
    /\ ev' = Event("serverStarted", "mcp", <<>>,
                   IF outcome = "returns" THEN "true" ELSE "false", 0, <<>>,
                   IF outcome = "returns" THEN <<"info">> ELSE <<"error">>)
    /\ ServerUnchanged

\* stop() up to its await.
StopBegin(srv) == IF srv.isRunning THEN [srv EXCEPT !.stopping = @ + 1] ELSE srv

ServerStop ==
    /\ mcpServer.isRunning => mcpServer.stopping < MaxServerCalls
    /\ mcpServer' = StopBegin(mcpServer)
    /\ ev' = Event("serverStop", "mcp", <<>>,
                   IF mcpServer.isRunning THEN "awaiting" ELSE "true", 0, <<>>, <<>>)
    /\ ServerUnchanged

\* stop() after its await: server.stop() resolved or rejected.
ServerStopSettles(outcome) ==
    /\ mcpServer.stopping > 0
    /\ mcpServer' = [mcpServer EXCEPT !.stopping = @ - 1,
                                      !.isRunning = IF outcome = "returns" THEN FALSE ELSE @,
                                      !.started = IF outcome = "returns" THEN 0 ELSE @]
    /\ ev' = Event("serverStopped", "mcp", <<>>,
                   IF outcome = "returns" THEN "true" ELSE "false", 0, <<>>,
                   IF outcome = "returns" THEN <<"info">> ELSE <<"error">>)
    /\ ServerUnchanged

\* What dispose() of the server does to the executor behind its tools: nothing.
ServerDisposeStore(h, store) == store

\* dispose(), called once when the extension's subscriptions are disposed:
\* stop() without awaiting it, then the status bar item is disposed.
ServerDispose ==
    /\ mcpServer.statusBar
    /\ mcpServer.isRunning => mcpServer.stopping < MaxServerCalls
    /\ mcpServer' = [StopBegin(mcpServer) EXCEPT !.statusBar = FALSE]
    /\ SetStore("mcp", ServerDisposeStore(heap["mcp"], tasks["mcp"]))
    /\ ev' = Event("serverDispose", "mcp", <<>>, "", 0, <<>>, <<>>)
    /\ UNCHANGED <<now, cfg, allowedCommands, asyncExecution, executionDelay,
                   taskCounter, isRunning, processingInterval, initialCheck, syncCall,
                   hostCommands, listCall>>
    /\ UNCHANGED gateVars
    /\ UNCHANGED settingVars

(***************************************************************************)
(* Specifications.                                                         *)
(***************************************************************************)
EmptyFn == [n \in {} |-> 0]

\* FastMcpServer after its constructor: not running, nothing awaited, the status
\* bar item shown. starting and stopping count the start() and stop() calls
\* that await the transport, started the transport starts that have resolved
\* since the last transport stop that resolved.
NewServer ==
    [isRunning |-> FALSE, starting |-> 0, stopping |-> 0, started |-> 0, statusBar |-> TRUE]

InitWith(c) ==
    /\ now = 0
    /\ cfg = c
    /\ showAsyncNotifications = FALSE
    /\ allowedCommands = [e \in Executors |-> cfg.allowedCommands]
    /\ asyncExecution = [e \in Executors |-> cfg.asyncExecution]
    /\ executionDelay = [e \in Executors |-> cfg.executionDelay]
    /\ heap = [e \in Executors |-> EmptyFn]
    /\ tasks = [e \in Executors |-> <<>>]
    /\ taskCounter = [e \in Executors |-> 0]
    /\ isRunning = [e \in Executors |-> TRUE]
    /\ processingInterval = [e \in Executors |-> TRUE]
    /\ initialCheck = [e \in Executors |-> TRUE]
    /\ hostCalls = [e \in Executors |-> EmptyFn]
    /\ hostOpen = [e \in Executors |-> EmptyFn]
    /\ syncCall = NoSync
    /\ ev = Event("init", "", <<>>, "", 0, <<>>, <<>>)
    /\ mcpServer = NewServer
    /\ listCall = <<>>

InitCore == \E c \in Configs : InitWith(c)

Init ==
    /\ InitCore
    /\ hostCommands = <<CmdA, CmdB>>
    /\ gateList = <<>>
    /\ gateCmd = <<>>
    /\ gateOut = TRUE
    /\ gatePc = "idle"

\* Settings that keep async mode on and the gate open: only the delay varies.
AsyncConfigs == {c \in Configs : c.asyncExecution /\ c.allowedCommands = <<>>}

InitSched == Init /\ cfg \in AsyncConfigs

\* The scheduler's life cycle: submissions in async mode, the timers, the
\* Command Host's answers, the task query surface and shutdown of the executor
\* behind the tools.
NextSched ==
    \/ ToolAsync("mcp", CmdA)
    \/ Tick("mcp")
    \/ InitialCheck("mcp")
    \/ \E n \in 1..MaxTasks, o \in HostOutcomes : HostReturn("mcp", n, o)
    \/ \E n \in 1..MaxTasks : CancelBackgroundTask("mcp", n)
    \/ ClearCompletedTasks("mcp")
    \/ ClearAllTasks("mcp")
    \/ Stop("mcp")
    \/ Dispose("mcp")
    \/ \E c \in AsyncConfigs : Refresh("mcp", c)
    \/ Advance

SpecSched == InitSched /\ [][NextSched]_vars

\* The gateway: the gate, the sync and async paths and configuration refreshes
\* of the executor behind the tools, with the scheduler running, at one instant:
\* a task queued with the long delay stays pending, one with delay 0 is started
\* by the next tick.
NextGateway ==
    \/ \E c \in Commands : ToolRejected("mcp", c)
    \/ \E c \in Commands : ToolAsync("mcp", c)
    \/ \E c \in Commands : ToolSync("mcp", c)
    \/ \E i \in 1..MaxSyncInFlight, o \in HostOutcomes : SyncReturn(i, o)
    \/ Tick("mcp")
    \/ \E n \in 1..MaxTasks, o \in HostOutcomes : HostReturn("mcp", n, o)
    \/ \E c \in Configs : Refresh("mcp", c)

SpecGateway == Init /\ [][NextGateway]_vars

\* The extension as activate wires it, at one instant: tools call the "mcp"
\* executor, settings changes reach the listeners.
\* What ServerManager.showStatus reads before it renders the status panel: the
\* allow-list, the async settings and the task statistics of executor e.
StatusView(e) ==
    [allowedCommands |-> allowedCommands[e],
     asyncExecution |-> asyncExecution[e],
     executionDelay |-> executionDelay[e],
     taskStats |-> GetTaskStats(heap[e], tasks[e])]

\* The status command: ServerManager reads its own CommandExecutor.
ShowStatus ==
    /\ ev' = [Event("showStatus", "mgr", <<>>, "", 0, <<>>, <<>>)
                 EXCEPT !.res = StatusView("mgr")]
    /\ UNCHANGED <<now, cfg, allowedCommands, asyncExecution, executionDelay, heap, tasks,
                   taskCounter, isRunning, processingInterval, initialCheck, hostCalls,
                   hostOpen, syncCall>>
    /\ UNCHANGED gateVars
    /\ UNCHANGED settingVars
    /\ UNCHANGED dispatchVars

NextExt ==
    \/ \E c \in Commands : ToolRejected("mcp", c)
    \/ \E c \in Commands : ToolAsync("mcp", c)
    \/ \E c \in Commands : ToolSync("mcp", c)
    \/ \E i \in 1..MaxSyncInFlight, o \in HostOutcomes : SyncReturn(i, o)
    \/ \E e \in Executors : Tick(e)
    \/ \E e \in Executors : InitialCheck(e)
    \/ \E n \in 1..MaxTasks, o \in HostOutcomes : HostReturn("mcp", n, o)
    \/ \E c \in Configs : ConfigChanged(c)
    \/ ShowStatus

SpecExt == Init /\ [][NextExt]_vars

\* The server's life cycle over an executor in async mode with its scheduler
\* running, at one instant.
NextServer ==
    \/ ToolAsync("mcp", CmdA)
    \/ Tick("mcp")
    \/ InitialCheck("mcp")
    \/ \E n \in 1..MaxTasks, o \in HostOutcomes : HostReturn("mcp", n, o)
    \/ ServerStart
    \/ \E o \in HostOutcomes : ServerStartSettles(o)
    \/ ServerStop
    \/ \E o \in HostOutcomes : ServerStopSettles(o)
    \/ ServerDispose

SpecServer == InitSched /\ [][NextServer]_vars

\* The dispatcher over the executor behind the tools, with the scheduler
\* running, at one instant; the execute tool itself is invoked with the empty
\* string, which its parameter schema lets through.
NextDispatch ==
    \/ ToolRejected("mcp", Empty)
    \/ ToolAsync("mcp", Empty)
    \/ ToolSync("mcp", Empty)
    \/ \E name \in CallNames, c \in CallCommands : CallToolThrows(name, c)
    \/ \E c \in CallCommands : CallToolAsync(c)
    \/ \E c \in CallCommands : CallToolSync(c)
    \/ CallToolInfo
    \/ ListCall("callTool")
    \/ \E i \in 1..MaxListInFlight, o \in HostOutcomes : ListReturn(i, o)
    \/ \E i \in 1..MaxSyncInFlight, o \in HostOutcomes : SyncReturn(i, o)
    \/ Tick("mcp")
    \/ \E n \in 1..MaxTasks, o \in HostOutcomes : HostReturn("mcp", n, o)

SpecDispatch == Init /\ [][NextDispatch]_vars

\* Command names the host may know.
HostNames == UNION {[1..k -> Chars] : k \in 1..HostNameLen}

RECURSIVE Ascending(_)
Ascending(S) ==
    IF S = {}
    THEN <<>>
    ELSE LET x == CHOOSE y \in S : \A z \in S : ~StringLess(z, y)
         IN <<x>> \o Ascending(S \ {x})

\* The host's names in an order that is neither ascending nor descending.
Shuffled ==
    LET asc == Ascending(HostNames)
    IN [i \in 1..Len(asc) |-> asc[((i * 7) % Len(asc)) + 1]]

Reverse(s) == [i \in 1..Len(s) |-> s[Len(s) + 1 - i]]

\* The answers of vscode.commands.getCommands() the model draws from.
HostLists ==
    LET lists == {SubSeq(Shuffled, 1, k) : k \in 0..MaxHostCommands}
    IN lists \cup {Reverse(l) : l \in lists}

\* Allow-lists for the listing: none, one prefix, two prefixes, everything.
ListAllowLists ==
    {<<>>, << <<"a", Star>> >>, << <<"a", Star>>, <<"b", Star>> >>, << <<"b">>, <<Star>> >>}

ListConfigs == [allowedCommands : ListAllowLists, asyncExecution : {TRUE}, executionDelay : {0}]

InitList ==
    /\ \E c \in ListConfigs : InitWith(c)
    /\ hostCommands \in HostLists
    /\ gateList = <<>>
    /\ gateCmd = <<>>
    /\ gateOut = TRUE
    /\ gatePc = "idle"

\* The listing through the tool and through callTool, with the allow-list
\* refreshed at any moment.
NextList ==
    \/ ListCall("list")
    \/ ListCall("callTool")
    \/ \E i \in 1..MaxListInFlight, o \in HostOutcomes : ListReturn(i, o)
    \/ \E c \in ListConfigs : Refresh("mcp", c)

SpecList == InitList /\ [][NextList]_vars

\* The gate applied to arbitrary snapshots and names.
GateNames == UNION {[1..k -> Chars] : k \in 0..GateNameLen}

GateLists == {<<>>} \cup {<<x>> : x \in GateNames} \cup {<<x, y>> : x \in GateNames, y \in GateNames}

InitGate ==
    /\ InitCore
    /\ cfg = [allowedCommands |-> <<>>, asyncExecution |-> TRUE, executionDelay |-> 0]
    /\ hostCommands = <<CmdA, CmdB>>
    /\ gateList \in GateLists
    /\ gateCmd \in GateNames
    /\ gateOut = FALSE
    /\ gatePc = "ask"

AskGate ==
    /\ gatePc = "ask"
    /\ gateOut' = IsCommandAllowed(gateList, gateCmd)
    /\ gatePc' = "done"
    /\ UNCHANGED <<gateList, gateCmd>>
    /\ UNCHANGED coreVars

NextGate == AskGate

SpecGate == InitGate /\ [][NextGate]_vars

\* Completion of asynchronous tasks and its notifications: submissions, the
\* timer, the Command Host's answers (an Error with an empty message among
\* them), cancel, clear, and the user switching showAsyncNotifications.
NextNotify ==
    \/ ToolAsync("mcp", CmdA)
    \/ Tick("mcp")
    \/ \E n \in 1..MaxTasks, o \in TaskHostOutcomes : HostReturn("mcp", n, o)
    \/ \E n \in 1..MaxTasks : CancelBackgroundTask("mcp", n)
    \/ ClearAllTasks("mcp")
    \/ \E b \in BOOLEAN : NotificationsChanged(b)

SpecNotify == InitSched /\ [][NextNotify]_vars

\* A submission whose delay elapses within the modelled time.
SubmitInTime ==
    /\ now + executionDelay["mcp"] <= MaxTime
    /\ ToolAsync("mcp", CmdA)

\* The scheduler of an executor that is never stopped.
NextLive ==
    \/ SubmitInTime
    \/ Tick("mcp")
    \/ \E n \in 1..MaxTasks, o \in TaskHostOutcomes : HostReturn("mcp", n, o)
    \/ \E n \in 1..MaxTasks : CancelBackgroundTask("mcp", n)
    \/ ClearAllTasks("mcp")
    \/ \E c \in AsyncConfigs : Refresh("mcp", c)
    \/ Advance

\* The setInterval timer keeps firing, time passes, and every Command Host
\* call settles.
Fairness ==
    /\ WF_vars(Tick("mcp"))
    /\ WF_vars(Advance)
    /\ \A n \in 1..MaxTasks : WF_vars(\E o \in TaskHostOutcomes : HostReturn("mcp", n, o))

SpecLive == InitSched /\ [][NextLive]_vars /\ Fairness

(***************************************************************************)
(* Properties.                                                             *)
(***************************************************************************)
Mcp == "mcp"

Store == SeqToSet(tasks[Mcp])

Objects == DOMAIN heap[Mcp]

\* A step of the scheduler: the interval callback or the one-shot initial check.
SchedulerStep == ev'.op \in {"tick", "initialCheck"}

EntryPermits(entry, command) ==
    IF entry # <<>> /\ entry[Len(entry)] = Star
    THEN /\ Len(entry) - 1 <= Len(command)
         /\ \A j \in 1..(Len(entry) - 1) : command[j] = entry[j]
    ELSE /\ Len(entry) = Len(command)
         /\ \A j \in 1..Len(entry) : command[j] = entry[j]

\* C2: the gate answers true for every command when the allow-list is empty, and
\* otherwise exactly when the command equals an entry without trailing wildcard
\* marker or starts with the prefix left by stripping the marker of an entry.
C2_GateMeaning ==
    gatePc = "done" =>
        gateOut = (gateList = <<>> \/ \E i \in 1..Len(gateList) : EntryPermits(gateList[i], gateCmd))

\* C2 witness: a wildcard entry admitted a longer name that no exact entry equals.
C2_Witness ==
    /\ gatePc = "done"
    /\ gateOut
    /\ gateList = << <<"b">>, <<"a", Star>> >>
    /\ gateCmd = <<"a", "b">>

LegalTransition(from, to) ==
    \/ from = to
    \/ from = "pending" /\ to \in {"running", "cancelled"}
    \/ from = "running" /\ to \in {"completed", "failed", "cancelled"}

\* C3: a task's status changes only along pending->running, running->completed,
\* running->failed, pending->cancelled and running->cancelled; a completed,
\* failed or cancelled task never changes status again.
C3_StatusTransitions ==
    [][\A n \in Objects \cap DOMAIN heap'[Mcp] :
          LegalTransition(heap[Mcp][n].status, heap'[Mcp][n].status)]_vars

\* C4: a task is handed to the Command Host at most once; it has left pending
\* when the call is issued; only a scheduler step moves a task from pending to
\* running or issues a host call for it.
C4_AtMostOneHostCall ==
    /\ [](\A n \in Objects :
            /\ hostCalls[Mcp][n] <= 1
            /\ hostCalls[Mcp][n] = 1 => heap[Mcp][n].status # "pending"
            /\ hostCalls[Mcp][n] = 1 <=> heap[Mcp][n].startedAt # Undef)
    /\ [][\A n \in Objects \cap DOMAIN heap'[Mcp] :
            (\/ heap[Mcp][n].status = "pending" /\ heap'[Mcp][n].status = "running"
             \/ hostCalls'[Mcp][n] > hostCalls[Mcp][n])
            => SchedulerStep]_vars

\* C4 witness: a tick ran while a task's host call was in flight and one had
\* finished, and handed neither to the host again.
C4_Witness ==
    /\ ev.op = "tick"
    /\ ev.called = <<>>
    /\ \E n \in Store : heap[Mcp][n].status = "running" /\ hostOpen[Mcp][n] = 1
    /\ \E n \in Store : heap[Mcp][n].status = "completed" /\ hostCalls[Mcp][n] = 1

\* C5: no task is running before its delay has elapsed since creation; a tick
\* starts every pending task of delay 0, and leaves pending every task whose
\* delay has not elapsed.
C5_DelayRespected ==
    /\ [](\A n \in Objects :
            heap[Mcp][n].startedAt # Undef
            => heap[Mcp][n].startedAt - heap[Mcp][n].createdAt >= heap[Mcp][n].delay)
    /\ [][ev'.op = "tick" =>
            \A n \in Store :
                heap[Mcp][n].status = "pending" =>
                    /\ heap[Mcp][n].delay = 0 => heap'[Mcp][n].status = "running"
                    /\ now - heap[Mcp][n].createdAt < heap[Mcp][n].delay
                       => heap'[Mcp][n].status = "pending"]_vars

\* C5 witness: a tick started the task of delay 0 and left the task whose delay
\* had not elapsed pending.
C5_Witness ==
    /\ ev.op = "tick"
    /\ \E n \in Store :
          /\ heap[Mcp][n].delay = 0
          /\ heap[Mcp][n].status = "running"
          /\ heap[Mcp][n].startedAt = heap[Mcp][n].createdAt
    /\ \E n \in Store :
          /\ heap[Mcp][n].delay = LongDelay
          /\ heap[Mcp][n].status = "pending"
          /\ now - heap[Mcp][n].createdAt < LongDelay

\* C6: cancelling a pending task makes it cancelled, and from then on it is never
\* running and no Command Host call is ever issued for it.
C6_CancelledPendingNeverRuns ==
    /\ [][(/\ ev'.op = "cancel"
           /\ ev'.num \in Store
           /\ heap[Mcp][ev'.num].status = "pending")
          => (/\ ev'.out = "true"
              /\ heap'[Mcp][ev'.num].status = "cancelled"
              /\ hostCalls'[Mcp][ev'.num] = 0)]_vars
    /\ [][\A n \in Objects \cap DOMAIN heap'[Mcp] :
            (heap[Mcp][n].status = "cancelled" /\ hostCalls[Mcp][n] = 0)
            => (heap'[Mcp][n].status = "cancelled" /\ hostCalls'[Mcp][n] = 0)]_vars

\* C6 witness: a tick ran over a task cancelled while pending whose delay had
\* elapsed, and did not start it.
C6_Witness ==
    /\ ev.op = "tick"
    /\ \E n \in Store :
          /\ heap[Mcp][n].status = "cancelled"
          /\ heap[Mcp][n].startedAt = Undef
          /\ hostCalls[Mcp][n] = 0
          /\ now - heap[Mcp][n].createdAt >= heap[Mcp][n].delay

\* A refresh of the executor behind the tools that turns async mode off.
DisablingRefresh == ev'.op = "refresh" /\ asyncExecution[Mcp] /\ ~asyncExecution'[Mcp]

\* C7: when a refresh disables async mode, every task running at that moment
\* stays in the Task Store.
C7_RunningSurvivesDisable ==
    [][DisablingRefresh =>
          \A n \in Store : heap[Mcp][n].status = "running" => n \in SeqToSet(tasks'[Mcp])]_vars

\* C8: when a refresh disables async mode while tasks are pending, each of them
\* is removed or cancelled, exactly one warning is raised, and a removed task
\* never comes back, so the Command Host is never called for it.
C8_PendingPurgedOneWarning ==
    /\ [][(DisablingRefresh /\ \E n \in Store : heap[Mcp][n].status = "pending")
          => (/\ \A n \in Store :
                    heap[Mcp][n].status = "pending"
                    => (n \notin DOMAIN heap'[Mcp] \/ heap'[Mcp][n].status = "cancelled")
              /\ ev'.notes = <<"warning">>
              /\ ev'.called = <<>>)]_vars
    /\ [][\A n \in 1..taskCounter[Mcp] : n \notin Objects => n \notin DOMAIN heap'[Mcp]]_vars

\* C8 witness: a refresh disabled async mode with two tasks pending and warned.
C8_Witness ==
    /\ ev.op = "refresh"
    /\ ev.notes = <<"warning">>
    /\ ev.num = 2
    /\ taskCounter[Mcp] = 2
    /\ Objects = {}

\* What execute_vscode_command does under settings c.
OutcomeUnder(c, command) ==
    IF c.allowedCommands # <<>> /\ ~IsCommandAllowed(c.allowedCommands, command)
    THEN "notAllowed"
    ELSE IF c.asyncExecution THEN "ack" ELSE "awaiting"

\* C9: every execute_vscode_command invocation is gated by the allow-list of the
\* current settings and uses their async flag and their delay.
C9_ConfigTakesEffect ==
    [][ev'.op = "tool" =>
          /\ ev'.out = OutcomeUnder(cfg, ev'.cmd)
          /\ ev'.out = "ack" => heap'[Mcp][ev'.num].delay = cfg.executionDelay]_vars

\* C10: dispose stops the recurring tick and empties the Task Store; once the
\* executor is stopped no task goes from pending to running and no host call is
\* issued, by the interval or by the initial check, the executor stays stopped,
\* and an empty store stays empty until a submission.
C10_ShutdownIsFinal ==
    /\ [][ev'.op = "dispose" =>
            (tasks'[Mcp] = <<>> /\ ~processingInterval'[Mcp] /\ ~isRunning'[Mcp])]_vars
    /\ [][~isRunning[Mcp] =>
            /\ ~isRunning'[Mcp]
            /\ ~processingInterval'[Mcp]
            /\ \A n \in DOMAIN hostCalls'[Mcp] :
                  hostCalls'[Mcp][n] = IF n \in DOMAIN hostCalls[Mcp] THEN hostCalls[Mcp][n] ELSE 0
            /\ \A n \in Objects \cap DOMAIN heap'[Mcp] :
                  heap[Mcp][n].status = "pending" => heap'[Mcp][n].status # "running"
            /\ (tasks[Mcp] = <<>> /\ ev'.op # "tool") => tasks'[Mcp] = <<>>]_vars

\* C10 witness: after dispose, with a task submitted since and eligible, the
\* one-shot initial check fired and left it pending.
C10_Witness ==
    /\ ev.op = "initialCheck"
    /\ ~isRunning[Mcp]
    /\ \E n \in Store :
          /\ heap[Mcp][n].status = "pending"
          /\ now - heap[Mcp][n].createdAt >= heap[Mcp][n].delay

\* The continuation of executeTask ran for a task object the Map no longer holds.
ReturnForRemoved == ev'.op = "hostReturn" /\ ev'.num \notin Store

\* C11: when the Command Host call of a task removed from the Task Store
\* settles, nothing happens: the store and its statistics are unchanged, the
\* removed record is not written, and no notification is raised.
C11_RemovedReturnIsNoOp ==
    [][ReturnForRemoved =>
          /\ tasks'[Mcp] = tasks[Mcp]
          /\ GetTaskStats(heap'[Mcp], tasks'[Mcp]) = GetTaskStats(heap[Mcp], tasks[Mcp])
          /\ ExecuteTaskEnd(heap[Mcp][ev'.num], ev'.out, now) = heap[Mcp][ev'.num]
          /\ ev'.notes = <<>>]_vars

\* C12: when the MCP server object is disposed the task queue is cleared: the
\* Task Store of the executor behind the tools is empty after the dispose, and
\* once the server is disposed its scheduler hands no task to the Command Host.
C12_ServerDisposeClearsQueue ==
    /\ [][ev'.op = "serverDispose" => tasks'[Mcp] = <<>>]_vars
    /\ [][~mcpServer.statusBar => (SchedulerStep => ev'.called = <<>>)]_vars

\* getTaskStats() of the executor behind the tools.
Stats == GetTaskStats(heap[Mcp], tasks[Mcp])

\* C13: the five per-status counts of getStats() sum to its total, and the total
\* is the number of tasks in the Task Store.
C13_StatsSumToTotal ==
    /\ Stats.pending + Stats.running + Stats.completed + Stats.failed + Stats.cancelled
           = Stats.total
    /\ Stats.total = Cardinality(Store)
    /\ \A n \in Store :
          heap[Mcp][n].status \in {"pending", "running", "completed", "failed", "cancelled"}

\* C13 witness: the store holds two tasks, one cancelled and one failed.
C13_Witness ==
    /\ Stats.total = 2
    /\ Stats.cancelled = 1
    /\ Stats.failed = 1

\* The stored tasks whose status is one of S.
StoredIn(S) == {n \in Store : heap[Mcp][n].status \in S}

\* C14: clearCompleted removes exactly the completed, failed and cancelled
\* tasks, leaves every pending and running task stored and unchanged, and
\* returns the number removed; clearAll removes every task and returns the
\* number of tasks the store held.
C14_ClearRemovesExactly ==
    /\ [][ev'.op = "clearCompleted" =>
            /\ SeqToSet(tasks'[Mcp]) = StoredIn({"pending", "running"})
            /\ Len(tasks'[Mcp]) = Cardinality(StoredIn({"pending", "running"}))
            /\ \A n \in StoredIn({"pending", "running"}) : heap'[Mcp][n] = heap[Mcp][n]
            /\ ev'.num = Cardinality(StoredIn({"completed", "failed", "cancelled"}))]_vars
    /\ [][ev'.op = "clearAll" =>
            /\ tasks'[Mcp] = <<>>
            /\ ev'.num = Cardinality(Store)]_vars

\* C14 witness: a clearCompleted removed one finished task and kept a running one.
C14_Witness ==
    /\ ev.op = "clearCompleted"
    /\ ev.num = 1
    /\ \E n \in Store : heap[Mcp][n].status = "running"
    /\ Cardinality(Store) = 1
    /\ taskCounter[Mcp] = 2

\* The tool was invoked in async mode with a command the gate lets through.
AcceptedAsync ==
    /\ ev'.op = "tool"
    /\ asyncExecution[Mcp]
    /\ IsCommandAllowed(allowedCommands[Mcp], ev'.cmd)

\* C15: in async mode an accepted execute-command adds exactly one task, pending
\* and with the configured delay, issues no Command Host call, and answers with
\* that task's id, the number of pending and running tasks then in the store
\* (at least 1) and the statistics of the store at that moment.
C15_AsyncAcknowledgement ==
    [][AcceptedAsync =>
          LET n == ev'.num
              queued == {m \in SeqToSet(tasks'[Mcp]) :
                            heap'[Mcp][m].status \in {"pending", "running"}}
          IN /\ ev'.out = "ack"
             /\ n \notin Objects
             /\ tasks'[Mcp] = Append(tasks[Mcp], n)
             /\ DOMAIN heap'[Mcp] = Objects \cup {n}
             /\ \A m \in Objects : heap'[Mcp][m] = heap[Mcp][m]
             /\ heap'[Mcp][n].status = "pending"
             /\ heap'[Mcp][n].delay = executionDelay[Mcp]
             /\ heap'[Mcp][n].command = ev'.cmd
             /\ ev'.called = <<>>
             /\ hostCalls'[Mcp][n] = 0
             /\ \A m \in Objects : hostCalls'[Mcp][m] = hostCalls[Mcp][m]
             /\ syncCall' = syncCall
             /\ ev'.res.success /\ ev'.res.async
             /\ ev'.res.taskId = heap'[Mcp][n].id
             /\ ev'.res.queueLength = Cardinality(queued)
             /\ ev'.res.queueLength >= 1
             /\ ev'.res.taskStats = GetTaskStats(heap'[Mcp], tasks'[Mcp])]_vars

\* C15 witness: an acknowledgement given while an earlier task was running and
\* the configured delay was the long one.
C15_Witness ==
    /\ ev.op = "tool"
    /\ ev.out = "ack"
    /\ ev.res.queueLength = 2
    /\ ev.res.taskStats.running = 1
    /\ ev.res.executionDelay = LongDelay
    /\ allowedCommands[Mcp] # <<>>

\* C16: a task id is the incremented counter followed by the time; the counter
\* never decreases, so the id a submission returns has a counter part larger
\* than that of every id returned before, cleared tasks included; the stored
\* tasks have pairwise different ids and a task's id never changes.
C16_FreshTaskIds ==
    /\ [](\A n \in Objects :
            /\ heap[Mcp][n].id[1] = n
            /\ n <= taskCounter[Mcp]
            /\ \A m \in Objects : m # n => heap[Mcp][m].id # heap[Mcp][n].id)
    /\ [][/\ taskCounter'[Mcp] >= taskCounter[Mcp]
          /\ \A n \in Objects \cap DOMAIN heap'[Mcp] : heap'[Mcp][n].id = heap[Mcp][n].id
          /\ (ev'.op = "tool" /\ ev'.out = "ack")
             => (/\ taskCounter'[Mcp] = taskCounter[Mcp] + 1
                 /\ ev'.res.taskId = heap'[Mcp][ev'.num].id
                 /\ ev'.res.taskId[1] = taskCounter'[Mcp])]_vars

\* C16 witness: a submission made after the first task was cleared, at the time
\* the first task was created.
C16_Witness ==
    /\ ev.op = "tool"
    /\ ev.out = "ack"
    /\ ev.res.taskId = <<2, 0>>
    /\ Objects = {2}

\* The tool was invoked in sync mode with a command the gate lets through.
AcceptedSync ==
    /\ ev'.op = "tool"
    /\ ~asyncExecution[Mcp]
    /\ IsCommandAllowed(allowedCommands[Mcp], ev'.cmd)

\* The Task Store and the scheduler's host calls are as they were.
StoreUntouched ==
    /\ tasks'[Mcp] = tasks[Mcp]
    /\ heap'[Mcp] = heap[Mcp]
    /\ hostCalls'[Mcp] = hostCalls[Mcp]
    /\ taskCounter'[Mcp] = taskCounter[Mcp]

\* C17: in sync mode an accepted execute-command calls the Command Host once and
\* creates no task; when the call settles the caller gets an object, success
\* with the host's result or failure with the host's error message, never a
\* thrown error, and the Task Store is still unchanged.
C17_SyncPath ==
    /\ [][AcceptedSync =>
            /\ ev'.out = "awaiting"
            /\ ev'.called = <<0>>
            /\ syncCall' = Append(syncCall, ev'.cmd)
            /\ StoreUntouched]_vars
    /\ [][ev'.op = "syncReturn" =>
            /\ Len(syncCall') = Len(syncCall) - 1
            /\ ev'.called = <<>>
            /\ StoreUntouched
            /\ ev'.out \in {"syncOk", "syncFail"}
            /\ ~ev'.res.async
            /\ ev'.res.command = ev'.cmd
            /\ ev'.out = "syncOk" => (ev'.res.success /\ ev'.res.result = HostResult)
            /\ ev'.out = "syncFail" => (~ev'.res.success /\ ev'.res.error = HostError)]_vars
    /\ [][Len(syncCall') > Len(syncCall) => AcceptedSync]_vars

\* C17 witness: the host call of a synchronous invocation raised and the caller
\* got the failure object, with a task sitting in the store.
C17_Witness ==
    /\ ev.op = "syncReturn"
    /\ ev.out = "syncFail"
    /\ ~ev.res.success
    /\ tasks[Mcp] # <<>>

\* C18: callTool knows exactly the three tool names; for any other name it
\* answers with an UnknownTool failure result, and no invocation ends with an
\* error thrown out of callTool.
C18_UnknownToolIsStructured ==
    [][ev'.op = "callTool" =>
          /\ ev'.out # "thrown"
          /\ ev'.tool \notin ToolNames <=> ev'.out = "unknownTool"]_vars

\* An execute-command invocation, through callTool or through the tool itself.
ExecuteInvoked ==
    \/ ev'.op = "callTool" /\ ev'.tool = "execute_vscode_command"
    \/ ev'.op = "tool"

\* C19: execute-command with an absent or empty command answers with a
\* MissingParameter failure result, throws nothing, creates no task and calls
\* the Command Host for nothing, whatever the allow-list and the async flag are.
C19_MissingCommandIsStructured ==
    [][(ExecuteInvoked /\ ev'.cmd \in {Empty, Absent})
       => (/\ ev'.out = "missingParameter"
           /\ StoreUntouched
           /\ ev'.called = <<>>
           /\ syncCall' = syncCall)]_vars

\* The names of the host's answer the gate permits under the allow-list in force.
Permitted ==
    {hostCommands[i] : i \in {j \in 1..Len(hostCommands) :
        allowedCommands[Mcp] = <<>> \/ IsCommandAllowed(allowedCommands[Mcp], hostCommands[j])}}

\* s is not behind t in the order of code units: s is a prefix of t, or they
\* first differ at a position where s has the smaller code unit.
NotBehind(s, t) ==
    \E k \in 0..Len(s) :
        /\ k <= Len(t)
        /\ \A j \in 1..k : s[j] = t[j]
        /\ \/ k = Len(s)
           \/ k < Len(t) /\ CharCode(s[k + 1]) < CharCode(t[k + 1])

\* C20: list-commands answers with the host's command names the gate permits
\* (all of them under an empty allow-list), in ascending order, showing the
\* first 20 and the "more" indicator exactly when more than 20 names remain after
\* filtering; when the host's query fails the answer lists nothing.
C20_ListCommands ==
    [][ev'.op = "listReturn" =>
          LET out == ev'.res
              names == IF ev'.out = "returns" THEN Permitted ELSE {}
              shown == {out.preview[i] : i \in 1..Len(out.preview)}
          IN /\ out.count = Cardinality(names)
             /\ Len(out.preview) = IF out.count > PreviewLimit THEN PreviewLimit ELSE out.count
             /\ Cardinality(shown) = Len(out.preview)
             /\ shown \subseteq names
             /\ \A i \in 1..(Len(out.preview) - 1) : NotBehind(out.preview[i], out.preview[i + 1])
             /\ \A x \in names \ shown : \A y \in shown : NotBehind(y, x)
             /\ out.more <=> Cardinality(names) > PreviewLimit]_vars

\* C20 witness: under a non-empty allow-list the host's answer of 24 names was
\* cut to the first 20 with the indicator shown.
C20_Witness ==
    /\ ev.op = "listReturn"
    /\ ev.out = "returns"
    /\ allowedCommands[Mcp] # <<>>
    /\ Len(hostCommands) = 24
    /\ ev.res.count = 24
    /\ Len(ev.res.preview) = PreviewLimit
    /\ ev.res.more

\* C21: when the Command Host raises while list-commands enumerates the names,
\* the answer of list-commands is a failure result (flagged isError), not a
\* successful listing.
C21_ListFailureIsStructured ==
    [][(ev'.op = "listReturn" /\ ev'.out = "raises") => ev'.res.isError]_vars

\* The fields every outcome of an accepted execute-command carries.
CommonFields == {"success", "async", "command", "arguments"}

\* C22: every outcome of an accepted execute-command (acknowledgement, sync
\* success, sync failure) is an object with success, async, command and
\* arguments, and in addition result on sync success, error on sync failure,
\* and taskId, message, queueLength and taskStats on an acknowledgement; async
\* is true exactly on an acknowledgement and success is false exactly on a
\* sync failure.
C22_UniformPayload ==
    [][((ev'.op = "tool" /\ ev'.out = "ack") \/ ev'.op = "syncReturn") =>
          LET p == ev'.res
              ack == ev'.out = "ack"
              syncOk == ev'.out = "syncOk"
              syncFail == ev'.out = "syncFail"
          IN /\ ack \/ syncOk \/ syncFail
             /\ CommonFields \subseteq DOMAIN p
             /\ p.command = ev'.cmd
             /\ p.arguments = <<>>
             /\ ack => ({"taskId", "message", "queueLength", "taskStats"} \subseteq DOMAIN p
                        /\ {"result", "error"} \cap DOMAIN p = {})
             /\ syncOk => ("result" \in DOMAIN p /\ "error" \notin DOMAIN p)
             /\ syncFail => ("error" \in DOMAIN p /\ "result" \notin DOMAIN p)
             /\ p.async <=> ack
             /\ ~p.success <=> syncFail]_vars

\* C22 witness: the host call of a synchronous invocation returned and the
\* caller got the success object with the host's result.
C22_Witness ==
    /\ ev.op = "syncReturn"
    /\ ev.out = "syncOk"
    /\ ev.res.success
    /\ "result" \in DOMAIN ev.res
    /\ ev.res.command = CmdA

\* C23: the tasks one tick hands to the Command Host are handed in the order
\* of their createdAt, and tasks with the same createdAt in the order of their
\* creation: of two pending tasks eligible in the same tick, the one created
\* first is handed first.
C23_OldestFirst ==
    [][SchedulerStep =>
          /\ \A i, j \in 1..Len(ev'.called) :
                i < j =>
                   LET a == heap[Mcp][ev'.called[i]]
                       b == heap[Mcp][ev'.called[j]]
                   IN /\ a.createdAt <= b.createdAt
                      /\ ev'.called[i] < ev'.called[j]
          /\ \A n \in Store :
                (isRunning[Mcp] /\ heap[Mcp][n].status = "pending"
                                /\ ShouldExecute(heap[Mcp][n], now))
                   => \E i \in 1..Len(ev'.called) : ev'.called[i] = n]_vars

\* C23 witness: one tick handed over two tasks created at different times, the
\* older one first.
C23_Witness ==
    /\ ev.op = "tick"
    /\ ev.called = <<1, 2>>
    /\ heap[Mcp][1].createdAt < heap[Mcp][2].createdAt
    /\ heap[Mcp][1].startedAt = heap[Mcp][2].startedAt

\* A timestamp that has been assigned keeps its value.
WriteOnce(old, new) == old # Undef => new = old

\* C24: createdAt, startedAt and completedAt of a task are each assigned at
\* most once and never changed afterwards, whatever the interleaving of ticks,
\* cancellations and Command Host answers.
C24_TimestampsWriteOnce ==
    [][\A n \in Objects \cap DOMAIN heap'[Mcp] :
          /\ WriteOnce(heap[Mcp][n].createdAt, heap'[Mcp][n].createdAt)
          /\ WriteOnce(heap[Mcp][n].startedAt, heap'[Mcp][n].startedAt)
          /\ WriteOnce(heap[Mcp][n].completedAt, heap'[Mcp][n].completedAt)]_vars

\* C25: the tasks created by execute-command invocations are in the store the
\* status view reads: the statistics the status view shows are those of the
\* Task Store of the executor behind the tools.
C25_SingleTaskStore ==
    [][ev'.op = "showStatus" =>
          ev'.res.taskStats = GetTaskStats(heap[Mcp], tasks[Mcp])]_vars

\* The stored tasks of the given status.
WithStatus(h, st) == {n \in Store : h[n].status = st}

\* C26: a tick of a running executor starts every pending eligible task,
\* however many tasks are already running: the running tasks after the tick are
\* the ones running before it together with all pending eligible ones, and
\* each of the latter gets its Command Host call in that tick.
C26_FireAndForget ==
    [][(SchedulerStep /\ isRunning[Mcp]) =>
          LET eligible == {n \in WithStatus(heap[Mcp], "pending") :
                              ShouldExecute(heap[Mcp][n], now)}
          IN /\ WithStatus(heap'[Mcp], "running")
                   = WithStatus(heap[Mcp], "running") \cup eligible
             /\ SeqToSet(ev'.called) = eligible
             /\ \A n \in eligible : hostOpen'[Mcp][n] = hostOpen[Mcp][n] + 1]_vars

\* C26 witness: a tick started the second task while the first one was running
\* with its Command Host call still open; two tasks are running.
C26_Witness ==
    /\ ev.op = "tick"
    /\ ev.called = <<2>>
    /\ heap[Mcp][1].status = "running"
    /\ heap[Mcp][2].status = "running"
    /\ hostOpen[Mcp][1] = 1
    /\ hostOpen[Mcp][2] = 1

\* C27: a task has a result only if its status is completed and an error only
\* if its status is failed; it never has both, and it has neither while it is
\* pending or running.
C27_ResultErrorMatchStatus ==
    \A n \in Objects :
        LET task == heap[Mcp][n]
        IN /\ task.result # NoValue => task.status = "completed"
           /\ task.error # NoValue => task.status = "failed"
           /\ ~(task.result # NoValue /\ task.error # NoValue)
           /\ task.status \in {"pending", "running"}
                 => (task.result = NoValue /\ task.error = NoValue)

\* C27 witness: the store holds a completed task with its result and a failed
\* task with its error.
C27_Witness ==
    /\ Store = {1, 2}
    /\ heap[Mcp][1].status = "completed"
    /\ heap[Mcp][1].result = HostResult
    /\ heap[Mcp][2].status = "failed"
    /\ heap[Mcp][2].error = HostError

\* The notifications a settled host call of a task must raise under the
\* setting in force when it settles.
ExpectedNotes(outcome, show) ==
    IF outcome = "returns"
    THEN (IF show THEN <<"info">> ELSE <<>>)
    ELSE <<"error">>

\* C29: every host failure of an asynchronous task raises exactly one error
\* notification whatever showAsyncNotifications is; a success raises the
\* completion notification exactly when showAsyncNotifications is set; no
\* other step of the scheduler raises an error notification, and the failure
\* reaches no caller: it is written to the task and the step changes nothing
\* but the task objects and the open host calls.
C29_FailureAlwaysNotified ==
    [][/\ ev'.op = "hostReturn"
          => /\ ev'.out \in TaskHostOutcomes
             /\ ev'.notes = ExpectedNotes(ev'.out, showAsyncNotifications)
             /\ hostOpen'[Mcp] # hostOpen[Mcp]
             /\ (ev'.out # "returns" /\ ev'.num \in Store)
                   => /\ heap'[Mcp][ev'.num].status = "failed"
                      /\ heap'[Mcp][ev'.num].error = ErrorMessage(ev'.out)
             /\ tasks' = tasks /\ syncCall' = syncCall /\ isRunning' = isRunning
       /\ ev'.op \in {"tool", "tick", "cancel", "clearAll"}
          => ev'.notes = <<>>]_vars

\* C29 witness: with showAsyncNotifications switched on, one task has failed
\* and the host call of the other has just returned, raising the completion
\* notification.
C29_Witness ==
    /\ showAsyncNotifications
    /\ ev.op = "hostReturn"
    /\ ev.out = "returns"
    /\ ev.notes = <<"info">>
    /\ \E n \in Store : heap[Mcp][n].status = "failed"

\* Task n is in the store and has not finished.
Unfinished(n) == n \in Store /\ heap[Mcp][n].status \in {"pending", "running"}

\* Task n has been cancelled or cleared.
CancelledOrCleared(n) == n \notin Store \/ heap[Mcp][n].status = "cancelled"

\* Task n has reached completed or failed.
Finished(n) == n \in Store /\ heap[Mcp][n].status \in {"completed", "failed"}

\* Every task that is not cancelled or cleared eventually finishes.
EveryTaskFinishes ==
    \A n \in 1..MaxTasks : Unfinished(n) ~> (Finished(n) \/ CancelledOrCleared(n))

\* C28: while the timer keeps firing, the executor is not stopped and every
\* Command Host call settles, every asynchronous task that is not cancelled or
\* cleared eventually reaches completed or failed, and a failed task carries
\* the message of the error the host raised, a string that is empty when that
\* error's message is empty.
C28_EveryTaskFinishes ==
    /\ EveryTaskFinishes
    /\ [](\A n \in Store :
             heap[Mcp][n].status = "failed"
                => heap[Mcp][n].error \in {ErrorMessage(o) : o \in TaskHostOutcomes \ {"returns"}})

\* C28 as stated: the error of a failed task is a non-empty string.
C28_NonEmptyError ==
    /\ EveryTaskFinishes
    /\ [](\A n \in Store :
             heap[Mcp][n].status = "failed"
                => (heap[Mcp][n].error # NoValue /\ heap[Mcp][n].error # ""))

\* C28 witness: a task submitted with the long delay waited for it, was started
\* and has failed, while a second task is still pending.
C28_Witness ==
    /\ Store = {1, 2}
    /\ heap[Mcp][1].delay = LongDelay
    /\ heap[Mcp][1].startedAt = heap[Mcp][1].createdAt + LongDelay
    /\ heap[Mcp][1].status = "failed"
    /\ heap[Mcp][1].error = HostError
    /\ heap[Mcp][2].status = "pending"

\* The allow-list now in force rejects the command of stored task n.
NowRejected(n) ==
    ~IsCommandAllowed(allowedCommands[Mcp], heap[Mcp][n].command)

\* C30: the gate is consulted at submission only: a refresh that leaves async
\* mode on keeps every stored task as it is, whatever the new allow-list, and
\* a tick hands a pending eligible task to the Command Host even when the
\* allow-list now in force rejects its command.
C30_GateAtSubmissionOnly ==
    [][/\ (ev'.op = "refresh" /\ asyncExecution'[Mcp])
          => (tasks'[Mcp] = tasks[Mcp] /\ heap'[Mcp] = heap[Mcp])
       /\ (ev'.op = "tick" /\ isRunning[Mcp])
          => \A n \in Store :
                (NowRejected(n) /\ heap[Mcp][n].status = "pending"
                                /\ ShouldExecute(heap[Mcp][n], now))
                   => /\ heap'[Mcp][n].status = "running"
                      /\ hostCalls'[Mcp][n] = hostCalls[Mcp][n] + 1
                      /\ n \in SeqToSet(ev'.called)]_vars

\* C30 witness: in async mode a tick has just handed to the Command Host a task
\* whose command the allow-list now in force rejects.
C30_Witness ==
    /\ ev.op = "tick"
    /\ asyncExecution[Mcp]
    /\ allowedCommands[Mcp] # <<>>
    /\ \E i \in 1..Len(ev.called) :
          /\ NowRejected(ev.called[i])
          /\ heap[Mcp][ev.called[i]].status = "running"

\* C31: the command, the arguments and the delay of a task never change after
\* its creation, whatever step is taken, and a tick decides eligibility by the
\* task's own delay: a pending task is started exactly when its own delay has
\* elapsed, whatever executionDelay is configured at the time of the tick.
C31_TaskParametersFixed ==
    [][/\ \A n \in Objects \cap DOMAIN heap'[Mcp] :
             /\ heap'[Mcp][n].command = heap[Mcp][n].command
             /\ heap'[Mcp][n].args = heap[Mcp][n].args
             /\ heap'[Mcp][n].delay = heap[Mcp][n].delay
       /\ (SchedulerStep /\ isRunning[Mcp])
          => \A n \in Store :
                heap[Mcp][n].status = "pending"
                   => (heap'[Mcp][n].status = "running"
                          <=> now - heap[Mcp][n].createdAt >= heap[Mcp][n].delay)]_vars

\* C31 witness: a task queued with the long delay was started by a tick once
\* that delay had elapsed, after the configured delay had been changed to 0.
C31_Witness ==
    /\ ev.op = "tick"
    /\ ev.called = <<1>>
    /\ heap[Mcp][1].delay = LongDelay
    /\ heap[Mcp][1].startedAt = heap[Mcp][1].createdAt + LongDelay
    /\ executionDelay[Mcp] = 0

\* Stored task n is running and its Command Host call has not settled.
AwaitingHost(n) ==
    /\ n \in Store
    /\ heap[Mcp][n].status = "running"
    /\ hostOpen[Mcp][n] > 0

\* C32: a running task whose Command Host call has not settled keeps the
\* status running through every step that is not its cancellation or the
\* settling of its call, and it stays in the Task Store through every step
\* that is not a clear of all tasks or the disposal of the executor: no tick,
\* no passing of time and no other operation changes or removes it.
C32_RunningUntilSettled ==
    [][\A n \in 1..MaxTasks :
          (AwaitingHost(n) /\ ~(ev'.op = "hostReturn" /\ ev'.num = n))
             => /\ n \in DOMAIN heap'[Mcp]
                /\ heap'[Mcp][n].status = "running" \/ (ev'.op = "cancel" /\ ev'.num = n)
                /\ hostOpen'[Mcp][n] = hostOpen[Mcp][n]
                /\ n \in SeqToSet(tasks'[Mcp]) \/ ev'.op \in {"clearAll", "dispose"}]_vars

\* C32 witness: a task started at time 0 is still running at the last modelled
\* time, right after a tick, its Command Host call still open.
C32_Witness ==
    /\ ev.op = "tick"
    /\ now = MaxTime
    /\ AwaitingHost(1)
    /\ heap[Mcp][1].startedAt = 0

\* C33: for every task, startedAt is set exactly if the task has been flipped
\* to running (a Command Host call has been issued for it), and completedAt is
\* set exactly if its status is completed, failed or cancelled.
C33_TimestampsMatchStatus ==
    \A n \in Objects :
        LET task == heap[Mcp][n]
        IN /\ task.startedAt # Undef <=> hostCalls[Mcp][n] > 0
           /\ task.status \in {"running", "completed", "failed"} => task.startedAt # Undef
           /\ task.status = "pending" => task.startedAt = Undef
           /\ task.completedAt # Undef
                 <=> task.status \in {"completed", "failed", "cancelled"}

\* C33 witness: the first task was cancelled while pending and has completedAt
\* but no startedAt; the second was started and has completed.
C33_Witness ==
    /\ Store = {1, 2}
    /\ heap[Mcp][1].status = "cancelled"
    /\ heap[Mcp][1].startedAt = Undef
    /\ heap[Mcp][1].completedAt # Undef
    /\ heap[Mcp][2].status = "completed"
    /\ heap[Mcp][2].startedAt # Undef
    /\ heap[Mcp][2].completedAt # Undef

\* The operations that empty or prune the Task Store.
RemovingOps == {"clearCompleted", "clearAll", "dispose", "refresh"}

\* C34: a task leaves the Task Store only in a step of clearCompleted,
\* clearAll, the async-disable purge of a refresh, or the executor's disposal;
\* every other step (submission, tick, initial check, Command Host answer,
\* cancellation, stop, time passing) keeps every stored task, in the same
\* order, so finished tasks stay in the store.
C34_RemovedOnlyByClear ==
    [][/\ ev'.op \notin RemovingOps
          => /\ Len(tasks'[Mcp]) >= Len(tasks[Mcp])
             /\ SubSeq(tasks'[Mcp], 1, Len(tasks[Mcp])) = tasks[Mcp]
             /\ Store \subseteq DOMAIN heap'[Mcp]
       /\ (ev'.op = "refresh" /\ asyncExecution'[Mcp]) => tasks'[Mcp] = tasks[Mcp]]_vars

\* C34 witness: a completed and a cancelled task are both still stored after
\* the host answer for the first, the cancellation of the second and a tick.
C34_Witness ==
    /\ ev.op = "tick"
    /\ tasks[Mcp] = <<1, 2>>
    /\ heap[Mcp][1].status = "completed"
    /\ heap[Mcp][2].status = "cancelled"

\* The three settings executor e decides with, as it holds them.
Snapshot(e) ==
    [allowedCommands |-> allowedCommands[e], asyncExecution |-> asyncExecution[e],
     executionDelay |-> executionDelay[e]]

\* The answer executeCommand gives for a command under settings c.
DecisionUnder(c, command) ==
    IF ~IsCommandAllowed(c.allowedCommands, command)
    THEN "notAllowed"
    ELSE IF c.asyncExecution THEN "ack" ELSE "awaiting"

\* C35: the executor's allow-list, mode and delay are always those of one
\* configuration (a refresh replaces the three together), and every
\* execute-command step decides with that configuration alone: its answer is
\* the one the gate and the mode of that configuration give, a new task
\* carries the delay of that configuration, and the step itself leaves the
\* configuration and the executor's settings as they were.
C35_OneSnapshotPerDecision ==
    /\ [](Snapshot(Mcp) = cfg)
    /\ [][ev'.op = "tool"
            => /\ ev'.out = DecisionUnder(cfg, ev'.cmd)
               /\ ev'.out = "ack" => /\ heap'[Mcp][ev'.num].delay = cfg.executionDelay
                                     /\ ev'.num = taskCounter[Mcp] + 1
                                     /\ ev'.num \in SeqToSet(tasks'[Mcp])
               /\ ev'.out = "awaiting" => syncCall' = Append(syncCall, ev'.cmd)
               /\ cfg' = cfg
               /\ Snapshot(Mcp)' = Snapshot(Mcp)]_vars

\* C35 witness: a second task is acknowledged after a refresh changed the
\* allow-list and the delay; it carries the new delay, the first the old one.
C35_Witness ==
    /\ ev.op = "tool"
    /\ ev.out = "ack"
    /\ ev.num = 2
    /\ cfg.allowedCommands # <<>>
    /\ DOMAIN heap[Mcp] = {1, 2}
    /\ heap[Mcp][1].delay = 0
    /\ heap[Mcp][2].delay = LongDelay

\* The task with number n is in the store and pending or running.
Cancellable(n) ==
    /\ n \in SeqToSet(tasks[Mcp])
    /\ heap[Mcp][n].status \in {"pending", "running"}

\* C36: cancelTask answers true exactly when the id is in the store with a
\* pending or running task, and then that task is cancelled; for an id that is
\* not in the store and for a completed, failed or cancelled task it answers
\* false and the store and every task object stay as they were.
C36_CancelTrueIffUnfinished ==
    [][ev'.op = "cancel"
         => /\ (ev'.out = "true") <=> Cancellable(ev'.num)
            /\ ev'.out \in {"true", "false"}
            /\ tasks' = tasks
            /\ Cancellable(ev'.num)
                  => /\ heap'[Mcp][ev'.num].status = "cancelled"
                     /\ \A k \in DOMAIN heap[Mcp] \ {ev'.num} : heap'[Mcp][k] = heap[Mcp][k]
            /\ ~Cancellable(ev'.num) => heap' = heap]_vars

\* C36 witness: cancelling the completed task 1 answered false, after an
\* earlier cancellation of task 2 had succeeded.
C36_Witness ==
    /\ ev.op = "cancel"
    /\ ev.out = "false"
    /\ ev.num = 1
    /\ tasks[Mcp] = <<1, 2>>
    /\ heap[Mcp][1].status = "completed"
    /\ heap[Mcp][2].status = "cancelled"

\* C36 witness of the refusal for an id the store does not hold.
C36_UnknownId ==
    /\ ev.op = "cancel"
    /\ ev.out = "false"
    /\ ev.num \notin SeqToSet(tasks[Mcp])

\* C37: the running flag follows the transport. start() on a running server
\* and stop() on a stopped one answer true and begin no transport call; a
\* start whose transport start raises answers false with the flag false before
\* and after; a stop whose transport stop raises answers false with the flag
\* true before and after; the flag turns true only in a start whose transport
\* start resolved and false only in a stop whose transport stop resolved.
C37_FlagFollowsTransport ==
    [][/\ (ev'.op = "serverStart" /\ mcpServer.isRunning)
             => (ev'.out = "true" /\ mcpServer' = mcpServer)
       /\ (ev'.op = "serverStop" /\ ~mcpServer.isRunning)
             => (ev'.out = "true" /\ mcpServer' = mcpServer)
       /\ (ev'.op = "serverStarted" /\ ev'.out = "false")
             => (~mcpServer.isRunning /\ ~mcpServer'.isRunning)
       /\ (ev'.op = "serverStopped" /\ ev'.out = "false")
             => (mcpServer.isRunning /\ mcpServer'.isRunning)
       /\ (~mcpServer.isRunning /\ mcpServer'.isRunning)
             => (ev'.op = "serverStarted" /\ ev'.out = "true")
       /\ (mcpServer.isRunning /\ ~mcpServer'.isRunning)
             => (ev'.op = "serverStopped" /\ ev'.out = "true")]_vars

\* C38: between two transport stops that resolved, at most one transport
\* start is under way or has resolved.
C38_TransportStartedOnce == mcpServer.starting + mcpServer.started <= 1

====
